---- MODULE Spec2Model ----
(***************************************************************************)
(* State-machine model of trainingpoints.py: generate_prior, scale_lhs and *)
(* pk_linear.  One call of scale_lhs or pk_linear is followed step by      *)
(* step; every effect on the outside world (the file read, the files       *)
(* written through hp.save_csv / hp.save_list, the construction and the    *)
(* invocations of the PowerSpectrum engine) is appended to `log`.          *)
(*                                                                         *)
(* Numbers: a unit value u in [0,1] is the integer n standing for          *)
(* n / UnitDen, and a scaled value is likewise counted in 1 / UnitDen.     *)
(* File names and paths are sequences of one-character strings.            *)
(***************************************************************************)
EXTENDS Integers, Sequences, FiniteSets, TLC

VARIABLES
    entry,        \* which function was called: "scale_lhs" or "pk_linear"
    fname,        \* argument fname
    save,         \* argument save of scale_lhs
    redshift,     \* argument redshift of pk_linear
    PRIORS,       \* CONFIG.PRIORS: parameter name -> prior specification
    file,         \* what is stored at the resolved path
    pc,           \* position in the code
    path,         \* local path of scale_lhs
    lhs,          \* local lhs of scale_lhs (the data frame read)
    ncosmo,       \* local ncosmo
    priors,       \* local priors, as the sequence of distributions built so far
    cosmo_list,   \* local cosmo_list of scale_lhs
    cosmologies,  \* local cosmologies of pk_linear
    module,       \* local module of pk_linear: constructed or not
    pk_lin,       \* local pk_lin of pk_linear
    error,        \* the exception that left the call, or "none"
    ret,          \* the value returned, if any
    log,          \* the effects on the outside world, in order
    prev          \* the previous call of the same caller, if any

vars == <<entry, fname, save, redshift, PRIORS, file, pc, path, lhs, ncosmo,
          priors, cosmo_list, cosmologies, module, pk_lin, error, ret, log, prev>>

-----------------------------------------------------------------------------
(* Bounds of the model *)

MaxRows == 2

UnitDen == 2

MaxName == 5

-----------------------------------------------------------------------------
(* Values *)

\* nothing returned (yet)
NoValue == [returned |-> FALSE, value |-> <<>>]

Returned(v) == [returned |-> TRUE, value |-> v]

\* no earlier call
NoCall == [valid |-> FALSE]

\* what the resolved path holds: nothing, something read_csv rejects, or a
\* table whose data columns (the first column being the index) are the rows
\* of unit values
Missing == [status |-> "missing", rows |-> <<>>]

Malformed == [status |-> "malformed", rows |-> <<>>]

Table(m) == [status |-> "ok", rows |-> m]

\* CONFIG.COSMO: the ordered parameter names
COSMO == <<"param1", "param2">>

Units == 0..UnitDen

Rows == [1..Len(COSMO) -> Units]

Matrices == UNION {[1..n -> Rows] : n \in 0..MaxRows}

\* tables that miss the last parameter's column
ShortRows == [1..(Len(COSMO) - 1) -> Units]

ShortMatrices == UNION {[1..n -> ShortRows] : n \in 1..MaxRows}

Redshifts == {0, 1}

\* scipy.stats names that the model knows as distribution families
StatsFamilies == {"uniform"}

Uniform(specs) == [distribution |-> "uniform", specs |-> specs]

\* the configurations considered: two well-formed ones, one whose second
\* parameter names no distribution, one whose first has too many specs
ConfigChoices ==
    { <<Uniform(<<0, 1>>), Uniform(<<0, 1>>)>>,
      <<Uniform(<<1, 2>>), Uniform(<<>>)>>,
      <<Uniform(<<0, 1>>), [distribution |-> "no_such_family", specs |-> <<0, 1>>]>>,
      <<Uniform(<<0, 1, 2>>), Uniform(<<2>>)>> }

Alphabet == {"a", ".", "c", "s", "v", "/"}

Names(n) == UNION {[1..m -> Alphabet] : m \in 0..n}

Csv == <<".", "c", "s", "v">>

DataDir == <<"d", "a", "t", "a">>

-----------------------------------------------------------------------------
(* Pure helpers *)

\* Python's `t in s` on strings
Contains(s, t) ==
    \E j \in 0..(Len(s) - Len(t)) : SubSeq(s, j + 1, j + Len(t)) = t

\* os.path.join(a, b) on POSIX
PathJoin(a, b) ==
    IF b # <<>> /\ b[1] = "/" THEN b
    ELSE IF a = <<>> \/ a[Len(a)] = "/" THEN a \o b
    ELSE a \o <<"/">> \o b

\* faulty variant: the suffix is appended whatever the name holds
ResolvePathAlwaysAppend(f) == PathJoin(DataDir, f \o Csv)

ResolvePath(f) ==
    IF Contains(f, Csv) THEN PathJoin(DataDir, f)
    ELSE PathJoin(DataDir, f \o Csv)

\* generate_prior fails when scipy.stats has no such family or the family
\* rejects the specs (uniform takes at most loc and scale)
PriorFails(dictionary) ==
    \/ dictionary.distribution \notin StatsFamilies
    \/ Len(dictionary.specs) > 2

generate_prior(dictionary) ==
    [family |-> dictionary.distribution,
     loc    |-> IF Len(dictionary.specs) >= 1 THEN dictionary.specs[1] ELSE 0,
     scale  |-> IF Len(dictionary.specs) >= 2 THEN dictionary.specs[2] ELSE 1]

\* dist.ppf(u) of a frozen uniform distribution, in units of 1 / UnitDen
Ppf(dist, u) == UnitDen * dist.loc + dist.scale * u

\* faulty variant: every column is scaled by the first parameter's prior
PriorIndexFirst(k) == 1

\* which prior scales the k-th column
PriorIndex(k) == k

\* which column the k-th parameter is read from
ColumnIndex(k) == k

\* the dictionary comprehension of scale_lhs
ScaledCosmo(cosmo, prs) ==
    [p \in {COSMO[k] : k \in 1..Len(COSMO)} |->
        LET k == CHOOSE kk \in 1..Len(COSMO) : COSMO[kk] = p
        IN  Ppf(prs[PriorIndex(k)], cosmo[ColumnIndex(k)])]

\* module.pk_linear(cosmo, redshift): an opaque function of its arguments
EnginePkLinear(cosmo, z) == [pk_of |-> cosmo, at_z |-> z]

-----------------------------------------------------------------------------
(* Effects on the outside world *)

ReadEvent(p) == [op |-> "read_csv", what |-> p, arg |-> <<>>]

SaveCsv(content, folder, name) ==
    [op |-> "save_csv", what |-> <<folder, name>>, arg |-> content]

SaveList(content, folder, name) ==
    [op |-> "save_list", what |-> <<folder, name>>, arg |-> content]

ConstructEvent ==
    [op |-> "PowerSpectrum", what |-> <<"Z_MIN", "Z_MAX", "K_MIN", "K_MAX">>,
     arg |-> <<>>]

InvokeEvent(cosmo, z, ok) ==
    [op |-> IF ok THEN "pk_linear" ELSE "pk_linear_raised", what |-> <<>>,
     arg |-> <<cosmo, z>>]

-----------------------------------------------------------------------------
(* The state at the call *)

Locals ==
    /\ pc = "resolve"
    /\ path = <<>>
    /\ lhs = <<>>
    /\ ncosmo = 0
    /\ priors = <<>>
    /\ cosmo_list = <<>>
    /\ cosmologies = <<>>
    /\ module = FALSE
    /\ pk_lin = <<>>
    /\ error = "none"
    /\ ret = NoValue
    /\ log = <<>>

Arguments ==
    \/ entry = "scale_lhs" /\ save \in BOOLEAN /\ redshift = 0
    \/ entry = "pk_linear" /\ save = TRUE /\ redshift \in Redshifts

Init ==
    /\ Arguments
    /\ fname \in {<<"a">>, <<"a">> \o Csv}
    /\ PRIORS \in ConfigChoices
    /\ file \in {Missing, Malformed}
                \cup {Table(m) : m \in Matrices \cup ShortMatrices}
    /\ Locals
    /\ prev = NoCall

Raise(kind) ==
    /\ error' = kind
    /\ pc' = "raised"

-----------------------------------------------------------------------------
(* scale_lhs *)

\* lines 48-51
Resolve ==
    /\ pc = "resolve"
    /\ path' = ResolvePath(fname)
    /\ pc' = "read"
    /\ UNCHANGED <<entry, fname, save, redshift, PRIORS, file, lhs, ncosmo,
                   priors, cosmo_list, cosmologies, module, pk_lin, error, ret,
                   log, prev>>

\* faulty variant: the last row of a longer table is not counted
RowCountShort(df) == IF Len(df) > 1 THEN Len(df) - 1 ELSE Len(df)

\* lhs.shape[0]
RowCount(df) == Len(df)

\* faulty variant: the tabular output is created before the input is read
ReadCsvAfterTruncate ==
    /\ pc = "read"
    /\ log' = log \o <<SaveCsv(<<>>, "data", "cosmologies"), ReadEvent(path)>>
    /\ IF file = Missing THEN
            /\ Raise("FileNotFoundError")
            /\ UNCHANGED <<lhs, ncosmo>>
       ELSE IF file = Malformed THEN
            /\ Raise("ParserError")
            /\ UNCHANGED <<lhs, ncosmo>>
       ELSE /\ lhs' = file.rows
            /\ ncosmo' = RowCount(file.rows)
            /\ pc' = "priors"
            /\ UNCHANGED error
    /\ UNCHANGED <<entry, fname, save, redshift, PRIORS, file, path, priors,
                   cosmo_list, cosmologies, module, pk_lin, ret, prev>>

\* lines 53-62
ReadCsv ==
    /\ pc = "read"
    /\ log' = Append(log, ReadEvent(path))
    /\ IF file = Missing THEN
            /\ Raise("FileNotFoundError")
            /\ UNCHANGED <<lhs, ncosmo>>
       ELSE IF file = Malformed THEN
            /\ Raise("ParserError")
            /\ UNCHANGED <<lhs, ncosmo>>
       ELSE /\ lhs' = file.rows
            /\ ncosmo' = RowCount(file.rows)
            /\ pc' = "priors"
            /\ UNCHANGED error
    /\ UNCHANGED <<entry, fname, save, redshift, PRIORS, file, path, priors,
                   cosmo_list, cosmologies, module, pk_lin, ret, prev>>

\* lines 64-65, one parameter at a time
BuildPrior ==
    /\ pc = "priors"
    /\ LET k == Len(priors) + 1
       IN  IF PriorFails(PRIORS[k]) THEN
                /\ Raise("ConfigError")
                /\ UNCHANGED priors
           ELSE /\ priors' = Append(priors, generate_prior(PRIORS[k]))
                /\ pc' = IF k = Len(COSMO) THEN "scale" ELSE "priors"
                /\ UNCHANGED error
    /\ UNCHANGED <<entry, fname, save, redshift, PRIORS, file, path, lhs,
                   ncosmo, cosmo_list, cosmologies, module, pk_lin, ret, log,
                   prev>>

\* faulty variant: every iteration reads the first row
RowOfFirst(i) == lhs[1]

\* the row that iteration i of the loop reads
RowOf(i) == lhs[i]

\* cosmo_list.append(cosmo)
AppendCosmo(list, cosmo) == Append(list, cosmo)

\* lines 67-75, one row at a time; cosmo[k] raises when the row has no
\* k-th column
ScaleRow ==
    /\ pc = "scale"
    /\ Len(cosmo_list) < ncosmo
    /\ LET i == Len(cosmo_list) + 1
       IN  IF Len(RowOf(i)) < Len(COSMO) THEN
                /\ Raise("IndexError")
                /\ UNCHANGED cosmo_list
           ELSE /\ cosmo_list' = AppendCosmo(cosmo_list,
                                             ScaledCosmo(RowOf(i), priors))
                /\ UNCHANGED <<pc, error>>
    /\ UNCHANGED <<entry, fname, save, redshift, PRIORS, file, path, lhs,
                   ncosmo, priors, cosmologies, module, pk_lin, ret, log, prev>>

\* faulty variant: the flag is ignored and the files are always written
SavedAlways(flag, list) ==
    << SaveCsv(list, "data", "cosmologies"),
       SaveList(list, "data", "cosmologies") >>

\* what lines 77-80 write
SavedCosmologies(flag, list) ==
    IF flag THEN << SaveCsv(list, "data", "cosmologies"),
                    SaveList(list, "data", "cosmologies") >>
    ELSE <<>>

\* lines 77-82 and, under pk_linear, the assignment of line 98
SaveAndReturn ==
    /\ pc = "scale"
    /\ Len(cosmo_list) = ncosmo
    /\ log' = log \o SavedCosmologies(save, cosmo_list)
    /\ IF entry = "scale_lhs" THEN
            /\ ret' = Returned(cosmo_list)
            /\ pc' = "done"
            /\ UNCHANGED cosmologies
       ELSE /\ cosmologies' = cosmo_list
            /\ pc' = "construct"
            /\ UNCHANGED ret
    /\ UNCHANGED <<entry, fname, save, redshift, PRIORS, file, path, lhs,
                   ncosmo, priors, cosmo_list, module, pk_lin, error, prev>>

-----------------------------------------------------------------------------
(* pk_linear *)

\* faulty variant: the engine is built before scale_lhs has saved anything
ConstructEarly ==
    /\ pc = "scale"
    /\ entry = "pk_linear"
    /\ ~module
    /\ module' = TRUE
    /\ log' = Append(log, ConstructEvent)
    /\ UNCHANGED <<entry, fname, save, redshift, PRIORS, file, pc, path, lhs,
                   ncosmo, priors, cosmo_list, cosmologies, pk_lin, error, ret,
                   prev>>

\* lines 101-103
Construct ==
    /\ pc = "construct"
    /\ module' = TRUE
    /\ log' = Append(log, ConstructEvent)
    /\ pc' = "loop"
    /\ UNCHANGED <<entry, fname, save, redshift, PRIORS, file, path, lhs,
                   ncosmo, priors, cosmo_list, cosmologies, pk_lin, error, ret,
                   prev>>

\* faulty variant: every iteration hands over the first cosmology
CosmoOfFirst(j) == cosmologies[1]

\* the cosmology that iteration j of the loop hands to the engine
CosmoOf(j) == cosmologies[j]

\* the redshift handed to the engine
EngineRedshift == redshift

\* faulty variant: a loop that tests after its body, the engine being called
\* with an empty cosmology when there is none
InvokeAtLeastOnce ==
    /\ pc = "loop"
    /\ Len(pk_lin) < Len(cosmologies) \/ (cosmologies = <<>> /\ pk_lin = <<>>)
    /\ LET j == Len(pk_lin) + 1
           c == IF j <= Len(cosmologies) THEN cosmologies[j] ELSE <<>>
       IN  /\ pk_lin' = Append(pk_lin, EnginePkLinear(c, redshift))
           /\ log' = Append(log, InvokeEvent(c, redshift, TRUE))
    /\ UNCHANGED <<entry, fname, save, redshift, PRIORS, file, pc, path, lhs,
                   ncosmo, priors, cosmo_list, cosmologies, module, error, ret,
                   prev>>

\* lines 105-107, one cosmology at a time, the engine returning
Invoke ==
    /\ pc = "loop"
    /\ Len(pk_lin) < Len(cosmologies)
    /\ LET j == Len(pk_lin) + 1
       IN  /\ pk_lin' = Append(pk_lin, EnginePkLinear(CosmoOf(j), EngineRedshift))
           /\ log' = Append(log, InvokeEvent(CosmoOf(j), EngineRedshift, TRUE))
    /\ UNCHANGED <<entry, fname, save, redshift, PRIORS, file, pc, path, lhs,
                   ncosmo, priors, cosmo_list, cosmologies, module, error, ret,
                   prev>>

\* faulty variant: the exception is caught, the row skipped, the loop goes on
InvokeRaisesCaught ==
    /\ pc = "loop"
    /\ Len(pk_lin) < Len(cosmologies)
    /\ error = "none"
    /\ LET j == Len(pk_lin) + 1
       IN  /\ log' = Append(log, InvokeEvent(cosmologies[j], redshift, FALSE))
           /\ pk_lin' = Append(pk_lin, <<>>)
    /\ error' = "EngineError"
    /\ UNCHANGED <<entry, fname, save, redshift, PRIORS, file, pc, path, lhs,
                   ncosmo, priors, cosmo_list, cosmologies, module, ret, prev>>

\* lines 105-107, the engine raising: nothing catches it
InvokeRaises ==
    /\ pc = "loop"
    /\ Len(pk_lin) < Len(cosmologies)
    /\ LET j == Len(pk_lin) + 1
       IN  log' = Append(log, InvokeEvent(CosmoOf(j), EngineRedshift, FALSE))
    /\ Raise("EngineError")
    /\ UNCHANGED <<entry, fname, save, redshift, PRIORS, file, path, lhs,
                   ncosmo, priors, cosmo_list, cosmologies, module, pk_lin,
                   ret, prev>>

\* what lines 110-112 write
SavedPk(list) ==
    << SaveCsv(list, "data", "pk_linear"), SaveList(list, "data", "pk_linear") >>

\* lines 109-114
SavePkAndReturn ==
    /\ pc = "loop"
    /\ Len(pk_lin) = Len(cosmologies)
    /\ log' = log \o SavedPk(pk_lin)
    /\ ret' = Returned(<<cosmologies, pk_lin>>)
    /\ pc' = "done"
    /\ UNCHANGED <<entry, fname, save, redshift, PRIORS, file, path, lhs,
                   ncosmo, priors, cosmo_list, cosmologies, module, pk_lin,
                   error, prev>>

Next ==
    \/ Resolve
    \/ ReadCsv
    \/ BuildPrior
    \/ ScaleRow
    \/ SaveAndReturn
    \/ Construct
    \/ Invoke
    \/ InvokeRaises
    \/ SavePkAndReturn

Spec == Init /\ [][Next]_vars

-----------------------------------------------------------------------------
(* The same caller calling once more: the functions keep nothing between   *)
(* calls, so the second call starts from fresh locals.  The first call's   *)
(* input and result are remembered in `prev` for comparison.               *)

Enter ==
    /\ pc' = "resolve"
    /\ path' = <<>>
    /\ lhs' = <<>>
    /\ ncosmo' = 0
    /\ priors' = <<>>
    /\ cosmo_list' = <<>>
    /\ cosmologies' = <<>>
    /\ module' = FALSE
    /\ pk_lin' = <<>>
    /\ error' = "none"
    /\ ret' = NoValue
    /\ log' = <<>>

Remember == [valid |-> TRUE, rows |-> file.rows, save |-> save, ret |-> ret]

\* a second call after one row of the input file was replaced
CallAgainOtherRow ==
    /\ pc = "done"
    /\ ~prev.valid
    /\ \E j \in 1..Len(file.rows), r \in Rows :
          /\ r # file.rows[j]
          /\ file' = Table([file.rows EXCEPT ![j] = r])
    /\ prev' = Remember
    /\ Enter
    /\ UNCHANGED <<entry, fname, save, redshift, PRIORS>>

\* a second call of scale_lhs with the other value of save
CallAgainOtherFlag ==
    /\ pc = "done"
    /\ ~prev.valid
    /\ entry = "scale_lhs"
    /\ save' = ~save
    /\ prev' = Remember
    /\ Enter
    /\ UNCHANGED <<entry, fname, redshift, PRIORS, file>>

\* the first call's file holds only the unit values 0 and 1
CornerMatrices == {m \in Matrices : \A i \in 1..Len(m), k \in 1..Len(COSMO) :
                                        m[i][k] \in {0, UnitDen}}

InitRerun ==
    /\ Arguments
    /\ fname = <<"a">>
    /\ PRIORS \in ConfigChoices
    /\ file \in {Missing, Malformed} \cup {Table(m) : m \in CornerMatrices}
    /\ Locals
    /\ prev = NoCall

NextRerun ==
    \/ Resolve
    \/ ReadCsv
    \/ BuildPrior
    \/ ScaleRow
    \/ SaveAndReturn
    \/ Construct
    \/ Invoke
    \/ InvokeRaises
    \/ SavePkAndReturn
    \/ CallAgainOtherRow
    \/ CallAgainOtherFlag

SpecRerun == InitRerun /\ [][NextRerun]_vars

-----------------------------------------------------------------------------
(* Path resolution alone, over every file name up to MaxName characters:   *)
(* nothing is stored at any of the paths, so the read raises.              *)

InitPath ==
    /\ entry = "scale_lhs"
    /\ save = FALSE
    /\ redshift = 0
    /\ fname \in Names(MaxName)
    /\ PRIORS = <<Uniform(<<0, 1>>), Uniform(<<0, 1>>)>>
    /\ file = Missing
    /\ Locals
    /\ prev = NoCall

NextPath ==
    \/ Resolve
    \/ ReadCsv

SpecPath == InitPath /\ [][NextPath]_vars

-----------------------------------------------------------------------------
(* Reading the log *)

IsRead(e) == e.op = "read_csv"

IsSave(e) == e.op \in {"save_csv", "save_list"}

IsSaveOf(e, name) == IsSave(e) /\ e.what = <<"data", name>>

IsConstruct(e) == e.op = "PowerSpectrum"

IsInvoke(e) == e.op \in {"pk_linear", "pk_linear_raised"}

Saves == SelectSeq(log, IsSave)

Invocations == SelectSeq(log, IsInvoke)

LogPositions == 1..Len(log)

ParamNames == {COSMO[k] : k \in 1..Len(COSMO)}

\* the list of cosmologies a finished call returned
ReturnedCosmos(r) == IF entry = "scale_lhs" THEN r.value ELSE r.value[1]

-----------------------------------------------------------------------------
(* C1 *)

\* C1: whenever pk_linear returns, the returned list of scaled cosmologies
\* and the returned list of power spectra both have as many elements as the
\* input table has rows.
RowCountInvariance ==
    (pc = "done" /\ entry = "pk_linear") =>
        /\ Len(ret.value[1]) = Len(file.rows)
        /\ Len(ret.value[2]) = Len(file.rows)

RowCountWitness ==
    /\ pc = "done"
    /\ entry = "pk_linear"
    /\ Len(file.rows) >= 2
    /\ Len(ret.value[2]) = Len(file.rows)

-----------------------------------------------------------------------------
(* C2 *)

\* C2: output i depends on row i alone.  When the same call is repeated
\* after another row of the file was replaced, every row i that was left as
\* it was yields the same scaled cosmology as before, and every position
\* whose scaled cosmology is the same as before yields the same spectrum.
OrderPreservation ==
    prev.valid =>
        \A i \in 1..Len(prev.rows) :
            /\ (i <= Len(cosmo_list) /\ file.rows[i] = prev.rows[i])
                   => cosmo_list[i] = ReturnedCosmos(prev.ret)[i]
            /\ (i <= Len(pk_lin) /\ entry = "pk_linear"
                    /\ cosmologies[i] = prev.ret.value[1][i])
                   => pk_lin[i] = prev.ret.value[2][i]
            /\ (pc = "done" /\ file.rows[i] = prev.rows[i])
                   => /\ ReturnedCosmos(ret)[i] = ReturnedCosmos(prev.ret)[i]
                      /\ entry = "pk_linear"
                            => ret.value[2][i] = prev.ret.value[2][i]

OrderPreservationWitness ==
    /\ prev.valid
    /\ pc = "done"
    /\ entry = "pk_linear"
    /\ Len(file.rows) = 2
    /\ file.rows[1] # prev.rows[1]
    /\ file.rows[2] = prev.rows[2]
    /\ ret.value[2][1] # prev.ret.value[2][1]
    /\ ret.value[2][2] = prev.ret.value[2][2]

-----------------------------------------------------------------------------
(* C3 *)

\* C3: as long as the engine has not failed, the invocations made so far
\* are one per cosmology, in input order, each with the redshift of the
\* call, and the result of the k-th invocation is at position k of pk_lin;
\* when pk_linear returns, every cosmology has been handed over exactly once.
EngineOncePerRowInOrder ==
    (entry = "pk_linear" /\ error = "none") =>
        /\ Len(Invocations) = Len(pk_lin)
        /\ Len(Invocations) <= Len(cosmologies)
        /\ \A k \in 1..Len(Invocations) :
              /\ Invocations[k] = InvokeEvent(cosmologies[k], redshift, TRUE)
              /\ pk_lin[k] = EnginePkLinear(Invocations[k].arg[1],
                                            Invocations[k].arg[2])
        /\ pc = "done" =>
              /\ Len(Invocations) = Len(file.rows)
              /\ cosmologies = cosmo_list
              /\ ret.value[2] = pk_lin

EngineOrderWitness ==
    /\ pc = "done"
    /\ entry = "pk_linear"
    /\ redshift = 1
    /\ Len(Invocations) = 2
    /\ cosmologies[1] # cosmologies[2]

-----------------------------------------------------------------------------
(* C4 *)

\* C4: once the engine has raised on a row, the call is over: the exception
\* has left pk_linear, the failed invocation is the last thing that happened,
\* no later row was handed to the engine, neither pk_linear file was written,
\* nothing was returned, and no step remains.
EngineFailureAborts ==
    error = "EngineError" =>
        /\ pc = "raised"
        /\ ~ret.returned
        /\ log[Len(log)].op = "pk_linear_raised"
        /\ \A p \in LogPositions :
              /\ log[p].op = "pk_linear_raised" => p = Len(log)
              /\ ~IsSaveOf(log[p], "pk_linear")
        /\ Len(Invocations) = Len(pk_lin) + 1
        /\ ~ENABLED Next

EngineFailureWitness ==
    /\ error = "EngineError"
    /\ Len(pk_lin) = 1
    /\ Len(cosmologies) = 2

-----------------------------------------------------------------------------
(* C5 *)

\* C5: in a call of pk_linear, the engine is constructed or invoked only
\* after every row is scaled and both cosmologies files are written; the one
\* read there is, of the input path, comes first and nothing is read after
\* it; the engine is handed the elements of the list scale_lhs returned; and
\* the pk_linear files are written only after the last invocation.
ScalerThenGenerator ==
    entry = "pk_linear" =>
        /\ \A p \in LogPositions :
              /\ IsRead(log[p]) => (p = 1 /\ log[p].what = path)
              /\ (IsConstruct(log[p]) \/ IsInvoke(log[p])) =>
                    /\ Len(cosmo_list) = Len(file.rows)
                    /\ cosmologies = cosmo_list
                    /\ \E q1, q2 \in 1..(p - 1) :
                          /\ q1 < q2
                          /\ log[q1] = SaveCsv(cosmo_list, "data", "cosmologies")
                          /\ log[q2] = SaveList(cosmo_list, "data", "cosmologies")
              /\ IsInvoke(log[p]) =>
                    /\ \E q \in 1..(p - 1) : IsConstruct(log[q])
                    /\ \E j \in 1..Len(cosmo_list) : log[p].arg[1] = cosmo_list[j]
              /\ IsSaveOf(log[p], "pk_linear") =>
                    /\ Len(Invocations) = Len(cosmo_list)
                    /\ \A q \in LogPositions : IsInvoke(log[q]) => q < p
                    /\ log[p].arg = pk_lin
        /\ module => \E p \in LogPositions : IsConstruct(log[p])

ScalerThenGeneratorWitness ==
    /\ pc = "done"
    /\ entry = "pk_linear"
    /\ Len(file.rows) = 2
    /\ Len(log) = 8
    /\ IsSaveOf(log[2], "cosmologies")
    /\ IsConstruct(log[4])
    /\ IsSaveOf(log[8], "pk_linear")

-----------------------------------------------------------------------------
(* C6 *)

\* C6: a table with no rows never leads to an engine invocation, and the
\* call returns empty lists: scale_lhs the empty list of cosmologies,
\* pk_linear the empty list of cosmologies and the empty list of spectra.
ZeroRows ==
    (file.status = "ok" /\ file.rows = <<>>) =>
        /\ \A p \in LogPositions : ~IsInvoke(log[p])
        /\ cosmo_list = <<>>
        /\ pk_lin = <<>>
        /\ (pc = "done" /\ entry = "scale_lhs") => ret.value = <<>>
        /\ (pc = "done" /\ entry = "pk_linear") => ret.value = << <<>>, <<>> >>

ZeroRowsWitness ==
    /\ file.status = "ok"
    /\ file.rows = <<>>
    /\ pc = "done"
    /\ entry = "pk_linear"
    /\ module

-----------------------------------------------------------------------------
(* C7 *)

\* C7: when scale_lhs fails on the input file (missing, rejected by the
\* parser, or lacking a column) or on a prior specification, no row has been
\* scaled, no file has been written, the engine has been neither constructed
\* nor invoked, nothing is returned and no step remains.
EarlyFailure ==
    error \in {"FileNotFoundError", "ParserError", "ConfigError", "IndexError"} =>
        /\ pc = "raised"
        /\ cosmo_list = <<>>
        /\ \A p \in LogPositions :
              ~IsSave(log[p]) /\ ~IsConstruct(log[p]) /\ ~IsInvoke(log[p])
        /\ ~module
        /\ pk_lin = <<>>
        /\ ~ret.returned
        /\ ~ENABLED Next

EarlyFailureWitness ==
    /\ error = "ConfigError"
    /\ entry = "pk_linear"
    /\ Len(lhs) = 2
    /\ Len(priors) = 1

-----------------------------------------------------------------------------
(* C8 *)

\* C8: scale_lhs with save = False writes nothing; scale_lhs with
\* save = True has, on return, written exactly the tabular and the
\* serialized file "cosmologies" under "data", holding the returned list;
\* and the same file scaled with the other value of the flag returns the
\* same list.
SaveFlag ==
    entry = "scale_lhs" =>
        /\ ~save => Saves = <<>>
        /\ (save /\ pc = "done") =>
              Saves = << SaveCsv(ret.value, "data", "cosmologies"),
                         SaveList(ret.value, "data", "cosmologies") >>
        /\ (save /\ pc # "done") => Saves = <<>>
        /\ (pc = "done" /\ prev.valid /\ prev.rows = file.rows) =>
              ret = prev.ret

SaveFlagWitness ==
    /\ entry = "scale_lhs"
    /\ pc = "done"
    /\ prev.valid
    /\ prev.save
    /\ ~save
    /\ prev.rows = file.rows
    /\ Len(ret.value) = 2

-----------------------------------------------------------------------------
(* C9 *)

\* the two priors of the example: uniform on [0, 1]
ExamplePriors == <<Uniform(<<0, 1>>), Uniform(<<0, 1>>)>>

\* C9: every scaled cosmology has exactly the configured parameter names as
\* keys, and maps the k-th name to the quantile function of that parameter's
\* own prior at the row's k-th unit value; the row [1/2, 1/2] under two
\* uniform priors on [0, 1] gives {param1: 1/2, param2: 1/2}.
QuantileScaling ==
    \A i \in 1..Len(cosmo_list) :
        /\ DOMAIN cosmo_list[i] = ParamNames
        /\ \A k \in 1..Len(COSMO) :
              cosmo_list[i][COSMO[k]] =
                  Ppf(generate_prior(PRIORS[k]), file.rows[i][k])
        /\ (PRIORS = ExamplePriors
                /\ \A k \in 1..Len(COSMO) : 2 * file.rows[i][k] = UnitDen)
              => \A k \in 1..Len(COSMO) : 2 * cosmo_list[i][COSMO[k]] = UnitDen

QuantileScalingWitness ==
    /\ pc = "done"
    /\ entry = "scale_lhs"
    /\ PRIORS = <<Uniform(<<1, 2>>), Uniform(<<>>)>>
    /\ Len(file.rows) = 2
    /\ file.rows[2] = <<1, 2>>
    /\ ret.value[2] = [p \in ParamNames |->
                          IF p = "param1" THEN UnitDen + 2 ELSE 2]

\* the example of the specification, reached
QuantileExampleReached ==
    /\ pc = "done"
    /\ PRIORS = ExamplePriors
    /\ file.rows = << <<1, 1>> >>
    /\ ReturnedCosmos(ret) = << [p \in ParamNames |-> 1] >>

-----------------------------------------------------------------------------
(* C10 *)

HasSeparator(f) == \E j \in 1..Len(f) : f[j] = "/"

EndsWith(s, t) == Len(s) >= Len(t) /\ SubSeq(s, Len(s) - Len(t) + 1, Len(s)) = t

\* the name without its last four characters
Stem(f) == SubSeq(f, 1, Len(f) - Len(Csv))

Under(dir, name) == dir \o <<"/">> \o name

DirectlyUnderData(p) ==
    /\ Len(p) > Len(DataDir)
    /\ SubSeq(p, 1, Len(DataDir) + 1) = DataDir \o <<"/">>
    /\ ~HasSeparator(SubSeq(p, Len(DataDir) + 2, Len(p)))

\* what the claim says of a call whose path is resolved
SuffixInsensitive ==
    /\ ~Contains(fname, Csv) =>
          /\ path = Under(DataDir, fname \o Csv)
          /\ ResolvePath(fname \o Csv) = path
    /\ (EndsWith(fname, Csv) /\ ~Contains(Stem(fname), Csv)) =>
          /\ path = Under(DataDir, fname)
          /\ ResolvePath(Stem(fname)) = path
          /\ ~EndsWith(path, Csv \o Csv)
    /\ DirectlyUnderData(path)
    /\ pc = "raised" => log = <<ReadEvent(path)>>

\* C10 as stated: for every name, with or without a path separator
PathAlwaysUnderData == pc # "resolve" => SuffixInsensitive

\* C10 as amended: for every name b that holds neither ".csv" nor a path
\* separator, scale_lhs(b) and scale_lhs(b + ".csv") read the same file
\* data/b.csv and the suffix is never appended twice; the path resolved for
\* a name without a path separator is directly under "data".
PathUnderDataForBaseNames ==
    (pc # "resolve" /\ ~HasSeparator(fname)) => SuffixInsensitive

PathWitness ==
    /\ pc = "raised"
    /\ fname = <<"a">> \o Csv
    /\ path = Under(DataDir, <<"a">> \o Csv)
    /\ log = <<ReadEvent(path)>>

====
